---- MODULE Spec2Model ----
(***************************************************************************)
(* Fault-tolerance layer of apps/core/services/resilience.py, with the      *)
(* management endpoints of apps/core/main.py and the degradation           *)
(* middleware of apps/core/services/middleware.py.                         *)
(*                                                                         *)
(* The specifications share the variables below:                           *)
(*   Spec          concurrent callers of one CircuitBreaker                *)
(*   SpecThreads   the same, with get_status run in a worker thread        *)
(*   SpecRetry     one RetryPolicy.execute wrapping a function or          *)
(*                 breaker.call(function)                                  *)
(*   SpecIdem      concurrent callers of the @idempotent wrapper           *)
(*   SpecIdemFull  store_idempotency on a store at its capacity            *)
(*   SpecDLQ       one DeadLetterQueue: add, retry, clear, get_all         *)
(*   SpecDLQRead   GET /resilience/dlq/{queue_name} on a growing queue     *)
(*   SpecRegistry  threads in get_circuit_breaker, set_degradation_mode    *)
(*   SpecHttp      requests through DegradationMiddleware                  *)
(*   SpecKey       generate_idempotency_key on two parameter dicts         *)
(* Coroutines interleave only at an await, so an action of a coroutine is  *)
(* the code that runs between two awaits.                                  *)
(***************************************************************************)
EXTENDS Integers, Sequences, FiniteSets, TLC

\* ------------------------------------------------------------------ bounds
NThreads == 2          \* threads calling get_circuit_breaker
MaxFree == 1           \* records the idempotency store can still take before it is full
MaxShownAdds == 52     \* entries added before a GET /resilience/dlq/{queue_name}
MaxSetModes == 3       \* calls of set_degradation_mode in one behaviour
NTasks == 3            \* concurrent callers of breaker.call
MaxThreshold == 3      \* failure_threshold ranges over 1..MaxThreshold
MaxTimeout == 2        \* recovery_timeout ranges over 0..MaxTimeout
MaxHalfOpen == 2       \* half_open_max_calls ranges over 1..MaxHalfOpen
MaxTime == 4           \* the clock stops advancing at MaxTime
MaxFailures == 4       \* no further failure is injected once _failure_count reaches it
MaxRetries == 2        \* max_retries ranges over 0..MaxRetries
NCallers == 2          \* concurrent callers of the @idempotent wrapper
MaxLate == 1           \* seconds the idempotency clock runs past 0 and past the TTL
MaxSize == 2           \* max_size of the dead letter queue ranges over 0..MaxSize
MaxAdds == 3           \* entries added to the dead letter queue in one behaviour
MaxRetryCount == 2     \* no further retry fails once an entry's retry_count reaches it

Tasks == 1..NTasks

\* ------------------------------------------------------------------ state
VARIABLES
    cb,        \* the CircuitBreaker instance: configuration and private fields
    now,       \* datetime.utcnow(), in seconds
    task,      \* per caller of breaker.call: position and the state it was admitted in
    last,      \* the most recent step: what ran and what its caller saw
    failStreak,\* failing calls in a row since the breaker was CLOSED with no failure counted
    succStreak,\* successful calls in a row since the first of them found the breaker HALF_OPEN
    reopened,  \* TRUE once a HALF_OPEN period has ended in failure
    rp,        \* the RetryPolicy instance
    rt,        \* the running RetryPolicy.execute: loop position, locals, and what it has done
    _idempotency_store, \* the dict, as its items in insertion order
    itask,     \* per caller of the @idempotent wrapper: position, key, and what it met
    ilast,     \* the most recent step of the idempotency layer
    dlq,       \* the DeadLetterQueue instance: max_size and _queue, a list of references
    entries,   \* the entry dicts add has created; a reference is an index here
    snapshot,  \* the list an earlier get_all returned to its caller
    seen,      \* what that caller read through the list when it received it
    dlast,     \* the most recent step of the dead letter queue
    _circuit_breakers, \* the registry dict: name -> reference of a breaker, 0 when absent
    instances, \* the CircuitBreaker objects get_circuit_breaker has constructed
    rcall,     \* per thread in get_circuit_breaker: position and arguments
    handed,    \* the (name, reference) pairs get_circuit_breaker has returned
    _degradation_mode, \* the module's degradation mode
    mode_log,  \* the modes set_degradation_mode was called with, in order
    kparams,   \* two parameter dicts handed to generate_idempotency_key
    kkeys,     \* the keys derived from them
    shown,     \* the "messages" of the latest GET /resilience/dlq/{queue_name} response
    request,   \* the HTTP request the application has received and not yet dispatched
    hlast,     \* the most recent dispatch: the request, the mode it met, the response
    sthread    \* the worker thread serving GET /resilience/circuit-breakers: its position

cbVars == <<cb, now, task, last, failStreak, succStreak, reopened>>
rtVars == <<rp, rt>>
idVars == <<_idempotency_store, itask, ilast>>
dlqVars == <<dlq, entries, snapshot, seen, dlast>>
regVars == <<_circuit_breakers, instances, rcall, handed>>
degVars == <<_degradation_mode, mode_log>>
keyVars == <<kparams, kkeys>>
vars == <<cb, now, task, last, failStreak, succStreak, reopened, rp, rt,
          _idempotency_store, itask, ilast, dlq, entries, snapshot, seen, dlast,
          _circuit_breakers, instances, rcall, handed, _degradation_mode, mode_log,
          kparams, kkeys, shown, request, hlast, sthread>>
mgVars == <<shown, request, hlast, sthread>>

\* The variables of the parts added to the breaker, the retry policy and the
\* idempotency layer, and the variables outside each of those parts.
restVars == <<dlqVars, regVars, degVars, keyVars, mgVars>>
dlqRest == <<cbVars, rtVars, idVars, regVars, degVars, keyVars, mgVars>>
regRest == <<cbVars, rtVars, idVars, dlqVars, keyVars, mgVars>>
keyRest == <<cbVars, rtVars, idVars, dlqVars, regVars, degVars, mgVars>>
mgRest == <<cbVars, rtVars, idVars, regVars, keyVars>>

\* CircuitState
CLOSED == "closed"
OPEN == "open"
HALF_OPEN == "half_open"
CircuitState == {CLOSED, OPEN, HALF_OPEN}

\* _last_failure_time: Optional[datetime]
None == -1

\* CircuitBreaker.__init__
CircuitBreaker(failure_threshold, recovery_timeout, half_open_max_calls) ==
    [ failure_threshold   |-> failure_threshold,
      recovery_timeout    |-> recovery_timeout,
      half_open_max_calls |-> half_open_max_calls,
      _state              |-> CLOSED,
      _failure_count      |-> 0,
      _success_count      |-> 0,
      _last_failure_time  |-> None,
      _half_open_calls    |-> 0 ]

\* state with the recovery test made strict (elapsed > recovery_timeout).
state_late(b, t) ==
    IF b._state = OPEN /\ b._last_failure_time # None
                       /\ t - b._last_failure_time > b.recovery_timeout
    THEN [b EXCEPT !._state = HALF_OPEN, !._half_open_calls = 0]
    ELSE b

\* CircuitBreaker.state (property): the breaker after the read; the value
\* returned is the _state field of the result.
state(b, t) ==
    IF b._state = OPEN /\ b._last_failure_time # None
                       /\ t - b._last_failure_time >= b.recovery_timeout
    THEN [b EXCEPT !._state = HALF_OPEN, !._half_open_calls = 0]
    ELSE b

\* _record_success closing one success late (_success_count > half_open_max_calls).
_record_success_late(b) ==
    IF b._state = HALF_OPEN
    THEN IF b._success_count + 1 > b.half_open_max_calls
         THEN [b EXCEPT !._state = CLOSED, !._failure_count = 0, !._success_count = 0]
         ELSE [b EXCEPT !._success_count = @ + 1]
    ELSE [b EXCEPT !._failure_count = IF @ - 1 > 0 THEN @ - 1 ELSE 0]

\* _record_success without the decay: a success outside HALF_OPEN leaves
\* _failure_count as it is.
_record_success_sticky(b) ==
    IF b._state = HALF_OPEN
    THEN IF b._success_count + 1 >= b.half_open_max_calls
         THEN [b EXCEPT !._state = CLOSED, !._failure_count = 0, !._success_count = 0]
         ELSE [b EXCEPT !._success_count = @ + 1]
    ELSE b

\* CircuitBreaker._record_success
_record_success(b) ==
    IF b._state = HALF_OPEN
    THEN IF b._success_count + 1 >= b.half_open_max_calls
         THEN [b EXCEPT !._state = CLOSED, !._failure_count = 0, !._success_count = 0]
         ELSE [b EXCEPT !._success_count = @ + 1]
    ELSE [b EXCEPT !._failure_count = IF @ - 1 > 0 THEN @ - 1 ELSE 0]

\* _record_failure opening one failure late (_failure_count > failure_threshold).
_record_failure_late(b, t) ==
    LET b1 == [b EXCEPT !._failure_count = @ + 1, !._last_failure_time = t]
    IN  IF b1._state = HALF_OPEN
        THEN [b1 EXCEPT !._state = OPEN]
        ELSE IF b1._failure_count > b1.failure_threshold
             THEN [b1 EXCEPT !._state = OPEN]
             ELSE b1

\* CircuitBreaker._record_failure
_record_failure(b, t) ==
    LET b1 == [b EXCEPT !._failure_count = @ + 1, !._last_failure_time = t]
    IN  IF b1._state = HALF_OPEN
        THEN [b1 EXCEPT !._state = OPEN]
        ELSE IF b1._failure_count >= b1.failure_threshold
             THEN [b1 EXCEPT !._state = OPEN]
             ELSE b1

\* CircuitBreaker.call up to the await: read the state, reject or admit.
call_enter(b, t) ==
    LET b1 == state(b, t)
    IN  IF b1._state = OPEN
        THEN [cb |-> b1, admitted |-> FALSE]
        ELSE IF b1._state = HALF_OPEN
             THEN [cb |-> [b1 EXCEPT !._half_open_calls = @ + 1], admitted |-> TRUE]
             ELSE [cb |-> b1, admitted |-> TRUE]

Idle == [pc |-> "idle", adm |-> CLOSED]
NoStep == [kind |-> "init", task |-> 0, pre |-> CLOSED, early |-> FALSE, outcome |-> "none"]

InitCB ==
    /\ \E n \in 1..MaxThreshold, T \in 0..MaxTimeout, m \in 1..MaxHalfOpen :
          cb = CircuitBreaker(n, T, m)
    /\ now = 0
    /\ task = [t \in Tasks |-> Idle]
    /\ last = NoStep
    /\ failStreak = 0
    /\ succStreak = 0
    /\ reopened = FALSE

\* A breaker with the default configuration that nothing calls.
CBQuiet ==
    /\ cb = CircuitBreaker(5, 30, 3)
    /\ now = 0
    /\ task = [t \in Tasks |-> Idle]
    /\ last = NoStep
    /\ failStreak = 0
    /\ succStreak = 0
    /\ reopened = FALSE

\* True when a read of the state at time t is made before recovery_timeout
\* has elapsed since the last failure.
Early(b, t) == b._last_failure_time # None /\ t - b._last_failure_time < b.recovery_timeout

\* breaker.call(func) from its first line to the await of func, or to the
\* raise of CircuitOpenError.
CallBegin(t) ==
    /\ task[t].pc = "idle"
    /\ LET r == call_enter(cb, now)
       IN  /\ cb' = r.cb
           /\ task' = [task EXCEPT ![t] =
                         IF r.admitted THEN [pc |-> "in_func", adm |-> r.cb._state] ELSE Idle]
           /\ last' = [kind |-> "call", task |-> t, pre |-> cb._state, early |-> Early(cb, now),
                       outcome |-> IF r.admitted THEN "invoked" ELSE "CircuitOpenError"]
    /\ UNCHANGED <<restVars, now, failStreak, succStreak, reopened, rtVars, idVars>>

\* func returned: _record_success, return result.
CallSuccess(t) ==
    /\ task[t].pc = "in_func"
    /\ cb' = _record_success(cb)
    /\ task' = [task EXCEPT ![t] = Idle]
    /\ last' = [kind |-> "success", task |-> t, pre |-> cb._state, early |-> Early(cb, now),
                outcome |-> "returned"]
    /\ failStreak' = 0
    /\ succStreak' = IF succStreak > 0 \/ cb._state = HALF_OPEN
                     THEN (IF succStreak < MaxHalfOpen + 1 THEN succStreak + 1 ELSE succStreak)
                     ELSE 0
    /\ UNCHANGED <<restVars, now, reopened, rtVars, idVars>>

\* func raised: _record_failure, re-raise.
CallFailure(t) ==
    /\ task[t].pc = "in_func"
    /\ cb._failure_count < MaxFailures
    /\ cb' = _record_failure(cb, now)
    /\ task' = [task EXCEPT ![t] = Idle]
    /\ last' = [kind |-> "failure", task |-> t, pre |-> cb._state, early |-> Early(cb, now),
                outcome |-> "raised"]
    /\ failStreak' = IF failStreak > 0 \/ (cb._state = CLOSED /\ cb._failure_count = 0)
                     THEN failStreak + 1 ELSE 0
    /\ succStreak' = 0
    /\ reopened' = (reopened \/ cb._state = HALF_OPEN)
    /\ UNCHANGED <<restVars, now, rtVars, idVars>>

\* CircuitBreaker.get_status: reads self.state, then the counters.
GetStatus ==
    /\ cb' = state(cb, now)
    /\ last' = [kind |-> "status", task |-> 0, pre |-> cb._state, early |-> Early(cb, now),
                outcome |-> state(cb, now)._state]
    /\ UNCHANGED <<restVars, now, task, failStreak, succStreak, reopened, rtVars, idVars>>

\* One second passes.
Tick ==
    /\ now < MaxTime
    /\ now' = now + 1
    /\ last' = [NoStep EXCEPT !.kind = "tick"]
    /\ UNCHANGED <<restVars, cb, task, failStreak, succStreak, reopened, rtVars, idVars>>

\* The variables the worker thread of get_status leaves alone.
statusRest == <<dlqVars, regVars, degVars, keyVars, shown, request, hlast>>

\* get_status in a worker thread, as list_circuit_breakers runs it: the state
\* property up to its test of the elapsed time. When the test fails the
\* property returns _state and get_status is done.
StatusTest ==
    /\ sthread = "idle"
    /\ IF state(cb, now) # cb
       THEN /\ sthread' = "elapsed"
            /\ UNCHANGED last
       ELSE /\ sthread' = "idle"
            /\ last' = [kind |-> "status", task |-> 0, pre |-> cb._state,
                        early |-> Early(cb, now), outcome |-> cb._state]
    /\ UNCHANGED <<statusRest, cb, now, task, failStreak, succStreak, reopened, rtVars, idVars>>

\* The rest of the state property in that thread: the two assignments and the
\* return, after whatever the event loop has run in between.
StatusAssign ==
    /\ sthread = "elapsed"
    /\ cb' = [cb EXCEPT !._state = HALF_OPEN, !._half_open_calls = 0]
    /\ sthread' = "idle"
    /\ last' = [kind |-> "status", task |-> 0, pre |-> cb._state,
                early |-> Early(cb, now), outcome |-> HALF_OPEN]
    /\ UNCHANGED <<statusRest, now, task, failStreak, succStreak, reopened, rtVars, idVars>>

\* Calls on the event loop, and get_status in a worker thread beside them.
NextThreads ==
    \/ \E t \in Tasks : CallBegin(t)
    \/ \E t \in Tasks : CallSuccess(t)
    \/ \E t \in Tasks : CallFailure(t)
    \/ Tick
    \/ StatusTest
    \/ StatusAssign

\* ------------------------------------------------------- circuit breaker claims

\* C1: after failure_threshold failing calls in a row, counted from a breaker
\* that was CLOSED with _failure_count = 0, the breaker is OPEN; and a call
\* made after them, before recovery_timeout has elapsed since the last
\* failure, gets CircuitOpenError and the function is not invoked.
C1_ThresholdOpens ==
    /\ (last.kind = "failure" /\ failStreak = cb.failure_threshold) => cb._state = OPEN
    /\ (last.kind = "call" /\ failStreak = cb.failure_threshold /\ last.early)
          => /\ last.outcome = "CircuitOpenError"
             /\ task[last.task].pc = "idle"
             /\ cb._state = OPEN

C1_Witness ==
    /\ last.kind = "call"
    /\ cb.failure_threshold >= 2
    /\ failStreak = cb.failure_threshold
    /\ last.early
    /\ last.outcome = "CircuitOpenError"

\* C2: a call that finds the breaker OPEN is rejected with CircuitOpenError,
\* without invoking the function and leaving the breaker OPEN, when less than
\* recovery_timeout has elapsed since _last_failure_time; otherwise it moves
\* the breaker to HALF_OPEN and invokes the function.
C2_RecoveryTiming ==
    (last.kind = "call" /\ last.pre = OPEN) =>
        IF last.early
        THEN /\ last.outcome = "CircuitOpenError"
             /\ task[last.task].pc = "idle"
             /\ cb._state = OPEN
        ELSE /\ last.outcome = "invoked"
             /\ task[last.task].pc = "in_func"
             /\ cb._state = HALF_OPEN

C2_Witness ==
    /\ last.kind = "call"
    /\ last.pre = OPEN
    /\ ~last.early
    /\ cb.recovery_timeout > 0
    /\ now - cb._last_failure_time = cb.recovery_timeout
    /\ last.outcome = "invoked"

\* C3: half_open_max_calls successful calls in a row, the first of which
\* finds the breaker HALF_OPEN, leave the breaker CLOSED with
\* _failure_count = 0, in a first HALF_OPEN period as in a later one; and a
\* failing call that finds the breaker HALF_OPEN leaves it OPEN.
C3_HalfOpenVerdict ==
    /\ succStreak >= cb.half_open_max_calls => (cb._state = CLOSED /\ cb._failure_count = 0)
    /\ (last.kind = "failure" /\ last.pre = HALF_OPEN) => cb._state = OPEN

C3_Witness ==
    /\ last.kind = "success"
    /\ last.pre = HALF_OPEN
    /\ reopened
    /\ cb.half_open_max_calls >= 2
    /\ succStreak = cb.half_open_max_calls
    /\ cb._state = CLOSED

\* C4: while the breaker is HALF_OPEN, the calls admitted since it became
\* HALF_OPEN number at most half_open_max_calls.
C4_HalfOpenBounded ==
    cb._state = HALF_OPEN => cb._half_open_calls <= cb.half_open_max_calls

\* C22: _success_count is 0 whenever the breaker is not HALF_OPEN: it is reset
\* when OPEN turns HALF_OPEN and whenever HALF_OPEN is left.
C22_SuccessCountReset == cb._state # HALF_OPEN => cb._success_count = 0

\* C23: in CLOSED a failure adds exactly 1 to _failure_count and a success
\* sets it to max(0, _failure_count - 1); _failure_count is never negative;
\* and the breaker goes from CLOSED to OPEN exactly in a failure that brings
\* _failure_count to failure_threshold or above.
C23_FailureCount ==
    /\ [](cb._failure_count >= 0)
    /\ [][\A t \in Tasks :
            /\ (CallFailure(t) /\ cb._state = CLOSED) =>
                  /\ cb'._failure_count = cb._failure_count + 1
                  /\ cb'._state = IF cb._failure_count + 1 >= cb.failure_threshold
                                  THEN OPEN ELSE CLOSED
            /\ (CallSuccess(t) /\ cb._state = CLOSED) =>
                  /\ cb'._failure_count =
                        (IF cb._failure_count >= 1 THEN cb._failure_count - 1 ELSE 0)
                  /\ cb'._state = CLOSED]_vars
    /\ [][(cb._state = CLOSED /\ cb'._state # CLOSED) =>
            /\ cb'._state = OPEN
            /\ \E t \in Tasks : CallFailure(t)]_vars

C23_Witness ==
    /\ last.kind = "success"
    /\ last.pre = CLOSED
    /\ cb._state = CLOSED
    /\ cb.failure_threshold = 3
    /\ cb._failure_count = 1

\* C16: get_status only reads: whatever the state and the time, the
\* breaker's state, failure count, success count and last failure time are
\* after the call what they were before it.
C16_StatusReadOnly ==
    [][GetStatus => /\ cb'._state = cb._state
                    /\ cb'._failure_count = cb._failure_count
                    /\ cb'._success_count = cb._success_count
                    /\ cb'._last_failure_time = cb._last_failure_time]_vars

\* The changes of state the breaker is meant to make.
StateChanges == {<<CLOSED, OPEN>>, <<OPEN, HALF_OPEN>>, <<HALF_OPEN, OPEN>>, <<HALF_OPEN, CLOSED>>}

\* C25: whatever the interleaving of calls and get_status, a step that
\* changes the breaker's state takes it from CLOSED to OPEN, from OPEN to
\* HALF_OPEN, from HALF_OPEN to OPEN or from HALF_OPEN to CLOSED; and an OPEN
\* breaker has its _last_failure_time set.
C25_StateChanges ==
    /\ [](cb._state = OPEN => cb._last_failure_time # None)
    /\ [][cb'._state # cb._state => <<cb._state, cb'._state>> \in StateChanges]_vars

\* C26: a call admitted while the breaker was CLOSED that completes when the
\* breaker is HALF_OPEN has no part in the half-open verdict: its success
\* leaves _success_count and the state as they are, and its failure does not
\* open the breaker.
C26_ProbesOnly ==
    [][\A t \in Tasks :
          (task[t].pc = "in_func" /\ task[t].adm = CLOSED /\ cb._state = HALF_OPEN) =>
              /\ CallSuccess(t) => /\ cb'._success_count = cb._success_count
                                   /\ cb'._state = HALF_OPEN
              /\ CallFailure(t) => cb'._state # OPEN]_vars

\* ------------------------------------------------------- idempotency store

IDEMPOTENCY_TTL_SECONDS == 86400

\* store_idempotency: `if len(_idempotency_store) > 10000`
IdempotencyCapacity == 10000

\* store_idempotency: `sorted(...)[:1000]`
IdempotencyEvict == 1000

\* A result the protected function returns; "None" is Python's None.
Results == {"None", "r1", "r2"}

\* datetime.isoformat and datetime.fromisoformat, on whole seconds: the date
\* part and the time-of-day part of the text.
isoformat(t) == [date |-> t \div 86400, time |-> t % 86400]
fromisoformat(x) == x.date * 86400 + x.time

\* Order of two isoformat texts, as str compares them.
iso_le(x, y) == x.date < y.date \/ (x.date = y.date /\ x.time <= y.time)

\* The names keyword arguments may have, in str order.
ParamNames == <<"guest", "room">>
name_rank(n) == CHOOSE i \in 1..Len(ParamNames) : ParamNames[i] = n

\* sorted(params.items()): the (name, value) pairs by name, by insertion.
RECURSIVE sorted_items(_)
insert_item(sortedSeq, it) ==
    LET before == SelectSeq(sortedSeq, LAMBDA x : name_rank(x[1]) <= name_rank(it[1]))
        after  == SelectSeq(sortedSeq, LAMBDA x : name_rank(x[1]) > name_rank(it[1]))
    IN  before \o <<it>> \o after
sorted_items(items) ==
    IF items = << >> THEN << >>
    ELSE insert_item(sorted_items(SubSeq(items, 1, Len(items) - 1)), items[Len(items)])

\* A parameter value: an int, or a dict of ints with its items in insertion order.
int_(n) == [type |-> "int", int |-> n, items |-> << >>]
dict_(items) == [type |-> "dict", int |-> 0, items |-> items]

\* repr(value), as the words of the text: a dict prints its items in
\* insertion order.
RECURSIVE items_repr(_)
items_repr(items) ==
    IF items = << >> THEN << >>
    ELSE <<items[1][1], ToString(items[1][2])>> \o items_repr(Tail(items))
repr(value) ==
    IF value.type = "dict" THEN <<"{">> \o items_repr(value.items) \o <<"}">>
    ELSE <<ToString(value.int)>>

\* generate_idempotency_key: the digest of f"{operation}:{sorted(params.items())}",
\* taken to be one-to-one on that text; the text of a list of pairs holds
\* each name and the repr of each value.
generate_idempotency_key(operation, params) ==
    LET sorted == sorted_items(params)
    IN  <<operation, [i \in 1..Len(sorted) |-> <<sorted[i][1], repr(sorted[i][2])>>]>>

\* dict operations on the store, kept as items in insertion order.
dict_has(store, key) == \E i \in 1..Len(store) : store[i].key = key
dict_index(store, key) == CHOOSE i \in 1..Len(store) : store[i].key = key
dict_get(store, key) == store[dict_index(store, key)]
dict_set(store, key, entry) ==
    IF dict_has(store, key)
    THEN [store EXCEPT ![dict_index(store, key)] = [key |-> key] @@ entry]
    ELSE Append(store, [key |-> key] @@ entry)
dict_del(store, key) == SelectSeq(store, LAMBDA e : e.key # key)

\* check_idempotency that never expires a record.
check_idempotency_forever(store, key, t) ==
    IF ~dict_has(store, key)
    THEN [store |-> store, value |-> "None"]
    ELSE [store |-> store, value |-> dict_get(store, key).result]

\* check_idempotency: the store after the call and the value returned.
check_idempotency(store, key, t) ==
    IF ~dict_has(store, key)
    THEN [store |-> store, value |-> "None"]
    ELSE LET entry == dict_get(store, key)
             created_at == fromisoformat(entry.created_at)
         IN  IF t - created_at > IDEMPOTENCY_TTL_SECONDS
             THEN [store |-> dict_del(store, key), value |-> "None"]
             ELSE [store |-> store, value |-> entry.result]

\* sorted(keys, key=created_at), a stable sort: the items grouped by
\* created_at, the groups in the order of their texts, each group in
\* insertion order.
RECURSIVE sorted_groups(_, _)
sorted_groups(store, stamps) ==
    IF stamps = {} THEN << >>
    ELSE LET first == CHOOSE x \in stamps : \A y \in stamps : iso_le(x, y)
         IN  SelectSeq(store, LAMBDA e : e.created_at = first)
                 \o sorted_groups(store, stamps \ {first})
sorted_by_created_at(store) ==
    sorted_groups(store, {store[i].created_at : i \in 1..Len(store)})

\* store_idempotency evicting the first keys of the dict, without the sort.
store_idempotency_unsorted(store, key, result, t) ==
    LET s1 == dict_set(store, key, [result |-> result, created_at |-> isoformat(t)])
    IN  IF Len(s1) > IdempotencyCapacity
        THEN SubSeq(s1, IdempotencyEvict + 1, Len(s1))
        ELSE s1

\* store_idempotency: write the record, then evict the oldest when over capacity.
store_idempotency(store, key, result, t) ==
    LET s1 == dict_set(store, key, [result |-> result, created_at |-> isoformat(t)])
    IN  IF Len(s1) > IdempotencyCapacity
        THEN LET oldest == SubSeq(sorted_by_created_at(s1), 1, IdempotencyEvict)
                 oldest_keys == {oldest[i].key : i \in 1..Len(oldest)}
             IN  SelectSeq(s1, LAMBDA e : e.key \notin oldest_keys)
        ELSE s1

\* The decorated function's operation name and the keyword arguments callers pass.
OperationName == "create_booking"
KwargsChoices ==
    { << <<"guest", int_(42)>> >>,
      << <<"guest", int_(42)>>, <<"room", int_(7)>> >>,
      << <<"room", int_(7)>>, <<"guest", int_(42)>> >> }
\* The positional arguments callers pass: the club the booking is made at.
ArgsChoices == { <<int_(1)>>, <<int_(2)>> }
AllKeys == {generate_idempotency_key(OperationName, kw) : kw \in KwargsChoices}

Callers == 1..NCallers
IdleKey == generate_idempotency_key(OperationName, << <<"guest", int_(42)>> >>)
IdleCaller == [pc |-> "idle", key |-> IdleKey, args |-> << >>, kwargs |-> << >>]
NoIdemStep ==
    [kind |-> "none", task |-> 0, key |-> IdleKey, found |-> "absent", prev |-> "None",
     value |-> "None", at |-> 0, before |-> << >>, failed |-> {}]

\* The idempotency layer before any call.
IdemQuiet ==
    /\ _idempotency_store = << >>
    /\ itask = [c \in Callers |-> IdleCaller]
    /\ ilast = NoIdemStep

\* ------------------------------------------------------- dead letter queue

\* A message handed to add: a str or an int, with the text str() gives for it.
Messages == {[type |-> "str", text |-> "a"], [type |-> "int", text |-> "7"]}

\* str(message)
str(message) == message.text

\* hashlib.md5(text.encode()).hexdigest()[:8], taken to be one-to-one on the
\* texts of Messages.
md5_8(text) == <<"md5", text>>

MessageIds == {md5_8(str(m)) : m \in Messages}

\* The error text add is given, and the str(e) of what a handler raises.
AddErrors == {"timeout"}
HandlerErrors == {"refused"}

\* DeadLetterQueue.__init__
DeadLetterQueue(max_size) == [max_size |-> max_size, _queue |-> << >>]

\* The entry dict add builds; last_error and last_retry are keys the dict
\* does not have yet (an absent key is the empty sequence).
Entry(message, error, t) ==
    [id |-> md5_8(str(message)), message |-> message, error |-> error,
     original_queue |-> "None", metadata |-> << >>, failed_at |-> isoformat(t),
     retry_count |-> 0, last_error |-> << >>, last_retry |-> << >>]

\* list[start:] for start <= 0: a negative start counts from the end, and
\* -0 is 0, the start of the list.
slice_from(list, start) ==
    LET first == IF start < 0
                 THEN (IF Len(list) + start > 0 THEN Len(list) + start ELSE 0)
                 ELSE (IF start < Len(list) THEN start ELSE Len(list))
    IN  SubSeq(list, first + 1, Len(list))

\* list[:stop] for stop >= 0
slice_to(list, stop) == SubSeq(list, 1, IF stop < Len(list) THEN stop ELSE Len(list))

\* add trimming with _queue[:max_size], which keeps the oldest entries.
add_keep_oldest(q, objs, message, error, t) ==
    LET ref == Len(objs) + 1
        appended == Append(q._queue, ref)
    IN  [dlq |-> [q EXCEPT !._queue = IF Len(appended) > q.max_size
                                      THEN slice_to(appended, q.max_size)
                                      ELSE appended],
         entries |-> Append(objs, Entry(message, error, t))]

\* DeadLetterQueue.add: a new dict is appended, and a queue longer than
\* max_size is replaced by _queue[-max_size:].
add(q, objs, message, error, t) ==
    LET ref == Len(objs) + 1
        appended == Append(q._queue, ref)
    IN  [dlq |-> [q EXCEPT !._queue = IF Len(appended) > q.max_size
                                      THEN slice_from(appended, 0 - q.max_size)
                                      ELSE appended],
         entries |-> Append(objs, Entry(message, error, t))]

\* DeadLetterQueue.get_all: _queue.copy(), a new list of the same dicts.
get_all(q) == q._queue

\* The entries read through a list of references.
read(list, objs) == [i \in 1..Len(list) |-> objs[list[i]]]

\* The last position of _queue whose entry has the id, 0 when none has.
position_last(q, objs, message_id) ==
    IF \E i \in 1..Len(q._queue) : objs[q._queue[i]].id = message_id
    THEN CHOOSE i \in 1..Len(q._queue) :
            /\ objs[q._queue[i]].id = message_id
            /\ \A j \in (i + 1)..Len(q._queue) : objs[q._queue[j]].id # message_id
    ELSE 0

\* The first position of _queue whose entry has the id, 0 when none has.
position(q, objs, message_id) ==
    IF \E i \in 1..Len(q._queue) : objs[q._queue[i]].id = message_id
    THEN CHOOSE i \in 1..Len(q._queue) :
            /\ objs[q._queue[i]].id = message_id
            /\ \A j \in 1..(i - 1) : objs[q._queue[j]].id # message_id
    ELSE 0

\* list.pop(i)
pop(list, i) == SubSeq(list, 1, i - 1) \o SubSeq(list, i + 1, Len(list))

\* retry whose except clause also drops the entry from the queue.
retry_dropping(q, objs, message_id, raised, t) ==
    LET i == position(q, objs, message_id)
    IN  IF i = 0 THEN [dlq |-> q, entries |-> objs, value |-> FALSE, handled |-> << >>]
        ELSE [dlq |-> [q EXCEPT !._queue = pop(@, i)], entries |-> objs,
              value |-> (raised = << >>), handled |-> <<objs[q._queue[i]].message>>]

\* DeadLetterQueue.retry with a handler that returns (raised = << >>) or
\* raises an exception whose str() is raised[1]. The except clause writes
\* into the dict the queue holds. `handled` lists the messages the handler
\* was invoked with.
retry(q, objs, message_id, raised, t) ==
    LET i == position(q, objs, message_id)
    IN  IF i = 0 THEN [dlq |-> q, entries |-> objs, value |-> FALSE, handled |-> << >>]
        ELSE IF raised = << >>
        THEN [dlq |-> [q EXCEPT !._queue = pop(@, i)], entries |-> objs, value |-> TRUE,
              handled |-> <<objs[q._queue[i]].message>>]
        ELSE [dlq |-> q,
              entries |-> [objs EXCEPT ![q._queue[i]] =
                              [@ EXCEPT !.retry_count = @ + 1,
                                        !.last_error = <<raised[1]>>,
                                        !.last_retry = <<isoformat(t)>>]],
              value |-> FALSE,
              handled |-> <<objs[q._queue[i]].message>>]

\* DeadLetterQueue.clear
clear(q) == [dlq |-> [q EXCEPT !._queue = << >>], value |-> Len(q._queue)]

\* No list has been returned by get_all yet.
NoList == <<0>>

NoDlqStep ==
    [kind |-> "none", id |-> md5_8(""), raised |-> << >>, at |-> 0, pre |-> << >>,
     pre_queue |-> << >>, value |-> FALSE, handled |-> << >>]

\* get_dlq: a queue of the default size, which nothing has used.
DlqQuiet ==
    /\ dlq = DeadLetterQueue(1000)
    /\ entries = << >>
    /\ snapshot = NoList
    /\ seen = << >>
    /\ dlast = NoDlqStep

\* ------------------------------------------- registry and degradation mode

\* Names and configurations get_circuit_breaker is called with; 5 and 30 are
\* the defaults of its parameters.
BreakerNames == {"ai"}
ThresholdChoices == {5, 3}
TimeoutChoices == {30}

Threads == 1..NThreads

\* `name not in _circuit_breakers`
registered(registry, name) == registry[name] # 0

\* The object `CircuitBreaker(name=..., failure_threshold=..., recovery_timeout=...)` builds.
new_breaker(name, failure_threshold, recovery_timeout) ==
    [name |-> name, breaker |-> CircuitBreaker(failure_threshold, recovery_timeout, 3)]

IdleThread == [pc |-> "idle", name |-> "ai", failure_threshold |-> 5, recovery_timeout |-> 30]

\* The empty registry.
RegQuiet ==
    /\ _circuit_breakers = [n \in BreakerNames |-> 0]
    /\ instances = << >>
    /\ rcall = [c \in Threads |-> IdleThread]
    /\ handed = {}

\* DegradationMode
NORMAL == "normal"
READ_ONLY == "read_only"
OFFLINE == "offline"
DegradationMode == {NORMAL, READ_ONLY, OFFLINE}

\* set_degradation_mode: the new value of the global.
set_degradation_mode(mode) == mode

\* get_degradation_mode
get_degradation_mode(current) == current

\* is_read_only testing READ_ONLY alone.
is_read_only_strict(current) == current = READ_ONLY

\* is_read_only
is_read_only(current) == current \in {READ_ONLY, OFFLINE}

\* is_offline
is_offline(current) == current = OFFLINE

DegQuiet ==
    /\ _degradation_mode = NORMAL
    /\ mode_log = << >>

\* get_dlq_status: `dlq.get_all()[:50]`
DlqDisplayLimit == 50

\* DeadLetterQueue.get_stats
get_stats(q, objs) ==
    [size |-> Len(q._queue), max_size |-> q.max_size,
     oldest |-> IF q._queue # << >> THEN <<objs[q._queue[1]].failed_at>> ELSE << >>,
     newest |-> IF q._queue # << >> THEN <<objs[q._queue[Len(q._queue)]].failed_at>> ELSE << >>]

\* get_dlq_status: the stats and get_all()[:50].
get_dlq_status(q, objs) ==
    [stats |-> get_stats(q, objs), messages |-> slice_to(get_all(q), DlqDisplayLimit)]

\* No request received, no response sent.
\* A request: its method and the segments of its URL path; "/" is << >>.
NoRequest == [method |-> "", path |-> << >>]
NoDispatch == [request |-> NoRequest, mode |-> "normal", status_code |-> 0, forwarded |-> FALSE]

\* DegradationMiddleware
READ_ONLY_PATHS == {<< >>, <<"health">>, <<"health", "deep">>, <<"metrics">>, <<"ai", "usage">>}
READ_ONLY_METHODS == {"GET", "HEAD", "OPTIONS"}

\* DegradationMiddleware.dispatch: TRUE when the request is handed to call_next,
\* FALSE when the middleware answers 503 itself.
dispatch(mode, req) ==
    IF mode = NORMAL THEN TRUE
    ELSE IF mode = OFFLINE /\ req.path \notin READ_ONLY_PATHS THEN FALSE
    ELSE IF mode = READ_ONLY /\ req.method \notin READ_ONLY_METHODS THEN FALSE
    ELSE TRUE

\* The route /resilience/degradation/{mode} and the requests clients send.
degradation_path(mode) == <<"resilience", "degradation", mode>>
ModeParams == DegradationMode \cup {"maintenance"}
Requests ==
    {[method |-> m, path |-> q] :
        m \in {"GET", "POST"},
        q \in {<<"health">>} \cup {degradation_path(x) : x \in ModeParams}}

\* The application behind the middleware: the status code of the response and
\* the degradation mode afterwards. set_degradation answers 400 to a mode
\* outside mode_map; a method the route does not have gets 405.
route(mode, req) ==
    IF Len(req.path) = 3 /\ SubSeq(req.path, 1, 2) = <<"resilience", "degradation">>
    THEN IF req.method # "POST" THEN [status_code |-> 405, mode |-> mode]
         ELSE IF req.path[3] \notin DegradationMode
              THEN [status_code |-> 400, mode |-> mode]
              ELSE [status_code |-> 200, mode |-> set_degradation_mode(req.path[3])]
    ELSE IF req.method = "GET" THEN [status_code |-> 200, mode |-> mode]
         ELSE [status_code |-> 405, mode |-> mode]

MgQuiet ==
    /\ shown = NoList
    /\ request = NoRequest
    /\ hlast = NoDispatch
    /\ sthread = "idle"

\* No key derived yet.
KeyQuiet ==
    /\ kparams = << << >>, << >> >>
    /\ kkeys = << << >>, << >> >>

\* ------------------------------------------------------------ retry policy

\* Exceptions a protected function raises, and CircuitOpenError(Exception).
FnExceptions == {"ConnectionError", "ValueError"}
ExceptionClasses == FnExceptions \cup {"CircuitOpenError"}

\* issubclass(c, base) for the classes above: each derives from Exception only.
issubclass(c, base) == base = "Exception" \/ c = base

\* `except self.retryable_exceptions as e` matches e.
caught(e, retryable_exceptions) == \E c \in retryable_exceptions : issubclass(e.cls, c)

\* RetryPolicy.__init__ default: retryable_exceptions = (Exception,)
DefaultRetryable == {"Exception"}

\* RetryPolicy.__init__
RetryPolicy(max_retries, retryable_exceptions) ==
    [max_retries |-> max_retries, retryable_exceptions |-> retryable_exceptions]

\* What one invocation of func produced: a returned value or a raised
\* exception, tagged with the attempt that produced it.
NoOutcome == [cls |-> "none", id |-> 0]
Outcome(cls, attempt) == [cls |-> cls, id |-> attempt]

NoExecution ==
    [pc |-> "idle", func |-> "fn", attempt |-> 0, last_exception |-> NoOutcome,
     calls |-> << >>, sleeps |-> 0, result |-> NoOutcome, error |-> NoOutcome,
     cancelled |-> FALSE, fn_log |-> << >>]

\* RetryPolicy.execute: entering the loop with attempt = 0.
execute_enter(func) == [NoExecution EXCEPT !.pc = "try", !.func = func]

\* func returned v: `return await func(...)`.
execute_return(r, v) ==
    [r EXCEPT !.pc = "returned", !.result = v, !.calls = Append(@, v)]

\* except clause with the retry test off by one (attempt < max_retries - 1).
execute_except_short(p, r, e) ==
    LET r1 == [r EXCEPT !.calls = Append(@, e)]
    IN  IF caught(e, p.retryable_exceptions)
        THEN IF r1.attempt < p.max_retries - 1
             THEN [r1 EXCEPT !.last_exception = e, !.pc = "sleeping", !.sleeps = @ + 1]
             ELSE [r1 EXCEPT !.last_exception = e, !.pc = "raised", !.error = e]
        ELSE [r1 EXCEPT !.pc = "raised", !.error = e]

\* except clause catching every exception, whatever retryable_exceptions says.
execute_except_all(p, r, e) ==
    LET r1 == [r EXCEPT !.calls = Append(@, e)]
    IN  IF r1.attempt < p.max_retries
        THEN [r1 EXCEPT !.last_exception = e, !.pc = "sleeping", !.sleeps = @ + 1]
        ELSE [r1 EXCEPT !.last_exception = e, !.pc = "raised", !.error = e]

\* except clause after which an exhausted loop returns None instead of raising.
execute_except_silent(p, r, e) ==
    LET r1 == [r EXCEPT !.calls = Append(@, e)]
    IN  IF caught(e, p.retryable_exceptions)
        THEN IF r1.attempt < p.max_retries
             THEN [r1 EXCEPT !.last_exception = e, !.pc = "sleeping", !.sleeps = @ + 1]
             ELSE [r1 EXCEPT !.last_exception = e, !.pc = "returned"]
        ELSE [r1 EXCEPT !.pc = "raised", !.error = e]

\* func raised e: the except clause; on the last iteration the loop ends and
\* `raise last_exception` runs; an exception the clause does not match leaves
\* execute at once.
execute_except(p, r, e) ==
    LET r1 == [r EXCEPT !.calls = Append(@, e)]
    IN  IF caught(e, p.retryable_exceptions)
        THEN IF r1.attempt < p.max_retries
             THEN [r1 EXCEPT !.last_exception = e, !.pc = "sleeping", !.sleeps = @ + 1]
             ELSE [r1 EXCEPT !.last_exception = e, !.pc = "raised", !.error = e]
        ELSE [r1 EXCEPT !.pc = "raised", !.error = e]

\* asyncio.sleep(delay) returned: the next iteration of `for attempt in range(max_retries + 1)`.
execute_continue(p, r) ==
    IF r.attempt + 1 <= p.max_retries
    THEN [r EXCEPT !.pc = "try", !.attempt = @ + 1]
    ELSE [r EXCEPT !.pc = "raised", !.error = r.last_exception]

\* The cancellation of the sleep swallowed: the loop goes on to the next attempt.
execute_cancel_swallowed(p, r) == [execute_continue(p, r) EXCEPT !.cancelled = TRUE]

\* The caller's task is cancelled during `await asyncio.sleep(delay)`: the
\* await raises CancelledError inside the except clause, which no clause of
\* the try statement handles, so it leaves the loop and execute.
execute_cancel(p, r) ==
    [r EXCEPT !.pc = "raised", !.error = Outcome("CancelledError", r.attempt),
              !.cancelled = TRUE]

\* A policy nothing executes.
RetryQuiet ==
    /\ rp = RetryPolicy(0, DefaultRetryable)
    /\ rt = NoExecution

\* The parts outside the breaker, the retry policy and the idempotency layer, unused.
RestQuiet == DlqQuiet /\ RegQuiet /\ DegQuiet /\ KeyQuiet /\ MgQuiet

InitRetry ==
    /\ InitCB
    /\ \E R \in 0..MaxRetries, re \in {DefaultRetryable, {"ConnectionError"}} :
          rp = RetryPolicy(R, re)
    /\ rt = NoExecution
    /\ IdemQuiet
    /\ RestQuiet

\* policy.execute(fn) or policy.execute(breaker.call, fn) is called.
Execute(func) ==
    /\ rt.pc \in {"idle", "returned", "raised"}
    /\ rt' = execute_enter(func)
    /\ UNCHANGED <<restVars, cbVars, rp, idVars>>

\* One attempt of a plain function: it returns or raises.
AttemptFn ==
    /\ rt.pc = "try"
    /\ rt.func = "fn"
    /\ \E o \in {"ok"} \cup FnExceptions :
          rt' = [(IF o = "ok" THEN execute_return(rt, Outcome(o, rt.attempt))
                  ELSE execute_except(rp, rt, Outcome(o, rt.attempt)))
                 EXCEPT !.fn_log = Append(@, o)]
    /\ UNCHANGED <<restVars, cbVars, rp, idVars>>

\* One attempt of breaker.call(fn), up to the await of fn or to CircuitOpenError.
AttemptBreaker ==
    /\ rt.pc = "try"
    /\ rt.func = "breaker.call"
    /\ LET r == call_enter(cb, now)
       IN  /\ cb' = r.cb
           /\ rt' = IF r.admitted THEN [rt EXCEPT !.pc = "in_call"]
                    ELSE [execute_except(rp, rt, Outcome("CircuitOpenError", rt.attempt))
                          EXCEPT !.fn_log = Append(@, "not_invoked")]
    /\ UNCHANGED <<restVars, now, task, last, failStreak, succStreak, reopened, rp, idVars>>

\* fn returned inside breaker.call: _record_success, and execute returns.
BreakerReturn ==
    /\ rt.pc = "in_call"
    /\ cb' = _record_success(cb)
    /\ rt' = [execute_return(rt, Outcome("ok", rt.attempt)) EXCEPT !.fn_log = Append(@, "ok")]
    /\ UNCHANGED <<restVars, now, task, last, failStreak, succStreak, reopened, rp, idVars>>

\* fn raised inside breaker.call: _record_failure, re-raise into execute.
BreakerRaise ==
    /\ rt.pc = "in_call"
    /\ cb._failure_count < MaxFailures
    /\ cb' = _record_failure(cb, now)
    /\ \E o \in FnExceptions :
          rt' = [execute_except(rp, rt, Outcome(o, rt.attempt)) EXCEPT !.fn_log = Append(@, o)]
    /\ UNCHANGED <<restVars, now, task, last, failStreak, succStreak, reopened, rp, idVars>>

\* The sleep between two attempts ends.
Wake ==
    /\ rt.pc = "sleeping"
    /\ rt' = execute_continue(rp, rt)
    /\ UNCHANGED <<restVars, cbVars, rp, idVars>>

\* The task running execute is cancelled while it sleeps between two attempts.
Cancel ==
    /\ rt.pc = "sleeping"
    /\ rt' = execute_cancel(rp, rt)
    /\ UNCHANGED <<restVars, cbVars, rp, idVars>>

NextRetry ==
    \/ \E f \in {"fn", "breaker.call"} : Execute(f)
    \/ AttemptFn
    \/ AttemptBreaker
    \/ BreakerReturn
    \/ BreakerRaise
    \/ Wake
    \/ Cancel
    \/ Tick

SpecRetry == InitRetry /\ [][NextRetry]_vars

\* ------------------------------------------------------------ retry claims

\* The policy retries outcome o: o is an exception of a class listed in
\* retryable_exceptions, or of any class when Exception is listed.
Retryable(o) ==
    /\ o.cls \in ExceptionClasses
    /\ ("Exception" \in rp.retryable_exceptions \/ o.cls \in rp.retryable_exceptions)

AllRetryableFailures == \A i \in 1..Len(rt.calls) : Retryable(rt.calls[i])

Finished == rt.pc \in {"returned", "raised"}

\* C8: when every attempt fails with a retryable failure, execute (its task
\* not being cancelled) invokes the function max_retries + 1 times, sleeps
\* max_retries times, never sleeps after the last attempt, and raises the
\* failure of the last attempt.
C8_RetryBound ==
    AllRetryableFailures =>
        /\ Len(rt.calls) <= rp.max_retries + 1
        /\ rt.sleeps <= rp.max_retries
        /\ rt.pc = "sleeping" => (rt.sleeps = Len(rt.calls) /\ Len(rt.calls) <= rp.max_retries)
        /\ (Finished /\ ~rt.cancelled) =>
                       /\ rt.pc = "raised"
                       /\ Len(rt.calls) = rp.max_retries + 1
                       /\ rt.sleeps = rp.max_retries
                       /\ rt.error = rt.calls[rp.max_retries + 1]
                       /\ rt.error.id = rp.max_retries

C8_Witness ==
    /\ rt.pc = "raised"
    /\ ~rt.cancelled
    /\ AllRetryableFailures
    /\ rp.max_retries = 2
    /\ Len(rt.calls) = 3
    /\ rt.sleeps = 2

\* C9: nothing follows a terminal outcome. Every outcome before the last one
\* is a retryable failure; when attempt k returns, execute returns its result
\* after k + 1 invocations; when an attempt raises a failure that is not
\* retryable, execute raises it at once, without a sleep after it.
C9_TerminalOutcome ==
    /\ \A i \in 1..(Len(rt.calls) - 1) : Retryable(rt.calls[i])
    /\ Len(rt.calls) > 0 =>
         LET o == rt.calls[Len(rt.calls)]
         IN  /\ o.cls = "ok" => /\ rt.pc = "returned"
                                /\ rt.result = o
                                /\ Len(rt.calls) = o.id + 1
                                /\ rt.sleeps = o.id
             /\ (o.cls # "ok" /\ ~Retryable(o)) => /\ rt.pc = "raised"
                                                    /\ rt.error = o
                                                    /\ Len(rt.calls) = o.id + 1
                                                    /\ rt.sleeps = o.id

C9_Witness ==
    /\ Len(rt.calls) = 2
    /\ rt.calls[2].cls = "ValueError"
    /\ ~Retryable(rt.calls[2])
    /\ rt.pc = "raised"
    /\ rt.sleeps = 1

\* C10: under the default retryable_exceptions, with execute wrapping
\* breaker.call, a CircuitOpenError is the last outcome of the execution:
\* execute raises it without sleeping and without calling the breaker again.
C10_CircuitOpenTerminal ==
    (rp.retryable_exceptions = DefaultRetryable /\ rt.func = "breaker.call") =>
        \A i \in 1..Len(rt.calls) :
            rt.calls[i].cls = "CircuitOpenError" =>
                /\ i = Len(rt.calls)
                /\ rt.pc = "raised"
                /\ rt.error = rt.calls[i]
                /\ rt.sleeps = i - 1

\* C11: when the task is cancelled during the sleep between two attempts,
\* execute ends at once by raising the cancellation error, and the function
\* is not invoked again: the invocations made are those before the sleep.
C11_CancelStopsRetry ==
    rt.cancelled =>
        /\ rt.pc = "raised"
        /\ rt.error = Outcome("CancelledError", rt.attempt)
        /\ Len(rt.calls) = rt.attempt + 1
        /\ Len(rt.calls) = rt.sleeps
        /\ Len(rt.calls) <= rp.max_retries

C11_Witness ==
    /\ rt.cancelled
    /\ rt.pc = "raised"
    /\ Len(rt.calls) = 1
    /\ rp.max_retries = 2

\* C20: a failure never reaches the caller as a success. An attempt counts
\* as returned only when the function was invoked and returned (through
\* breaker.call too); execute returns only the result of such an attempt;
\* and when no attempt returned, the caller of execute gets an exception.
C20_NoMaskedFailure ==
    /\ Len(rt.fn_log) = Len(rt.calls)
    /\ \A i \in 1..Len(rt.calls) : rt.calls[i].cls = "ok" => rt.fn_log[i] = "ok"
    /\ rt.pc = "returned" =>
          /\ \E i \in 1..Len(rt.calls) :
                rt.fn_log[i] = "ok" /\ rt.calls[i].cls = "ok" /\ rt.result = rt.calls[i]
          /\ rt.error = NoOutcome
    /\ (Finished /\ \A i \in 1..Len(rt.fn_log) : rt.fn_log[i] # "ok") =>
          /\ rt.pc = "raised"
          /\ rt.error.cls \in ExceptionClasses \cup {"CancelledError"}
          /\ rt.result = NoOutcome

C20_Witness ==
    /\ rt.func = "breaker.call"
    /\ rt.pc = "raised"
    /\ Len(rt.fn_log) = 3
    /\ rt.fn_log[1] \in FnExceptions
    /\ rt.fn_log[3] = "not_invoked"
    /\ rt.error.cls = "CircuitOpenError"

\* ------------------------------------------------ idempotent wrapper, actions

InitIdem ==
    /\ CBQuiet
    /\ RetryQuiet
    /\ IdemQuiet
    /\ RestQuiet

\* What the store holds for key at time t: no record, a record no older than
\* the TTL, or an older one.
found(store, key, t) ==
    IF ~dict_has(store, key) THEN "absent"
    ELSE IF t - fromisoformat(dict_get(store, key).created_at) > IDEMPOTENCY_TTL_SECONDS
         THEN "stale" ELSE "live"

\* The result recorded for key, "None" when there is no record.
recorded(store, key) == IF dict_has(store, key) THEN dict_get(store, key).result ELSE "None"

\* The callers other than c that are awaiting func under key.
inflight(c, key) == {d \in Callers \ {c} : itask[d].pc = "in_func" /\ itask[d].key = key}

\* What a step of the layer met and gave back: the record it found before
\* acting, for a return the result that record held, the time and the store
\* before the step, and the keys under which func has raised with no record
\* in the store and none stored since.
Step(kind, c, key, value) ==
    [kind |-> kind, task |-> c, key |-> key,
     found |-> found(_idempotency_store, key, now),
     prev |-> IF kind = "return" THEN recorded(_idempotency_store, key) ELSE "None",
     value |-> value,
     at |-> now,
     before |-> _idempotency_store,
     failed |-> IF kind = "raise" /\ ~dict_has(_idempotency_store, key)
                THEN ilast.failed \cup {key}
                ELSE IF kind = "return" THEN ilast.failed \ {key} ELSE ilast.failed]

\* The wrapper from its first line to the await of func, or to `return cached`.
ExecBegin(c, args, kwargs) ==
    /\ itask[c].pc = "idle"
    /\ LET key == generate_idempotency_key(OperationName, kwargs)
           r == check_idempotency(_idempotency_store, key, now)
           cached == r.value
       IN  /\ _idempotency_store' = r.store
           /\ itask' = [itask EXCEPT ![c] =
                          IF cached # "None" THEN IdleCaller
                          ELSE [pc |-> "in_func", key |-> key,
                                args |-> args, kwargs |-> kwargs]]
           /\ ilast' = Step("begin", c, key, cached)
    /\ UNCHANGED <<restVars, cbVars, rtVars>>

\* func returned result: store_idempotency(key, result), return result.
ExecReturn(c, result) ==
    /\ itask[c].pc = "in_func"
    /\ _idempotency_store' = store_idempotency(_idempotency_store, itask[c].key, result, now)
    /\ itask' = [itask EXCEPT ![c] = IdleCaller]
    /\ ilast' = Step("return", c, itask[c].key, result)
    /\ UNCHANGED <<restVars, cbVars, rtVars>>

\* The wrapper recording the key when func raises.
wrapper_raise_cached(store, key, t) == store_idempotency(store, key, "r1", t)

\* The wrapper when func raises: the exception leaves it at the call of func,
\* before store_idempotency.
wrapper_raise(store, key, t) == store

\* func raised: the exception leaves the wrapper, nothing is stored.
ExecRaise(c) ==
    /\ itask[c].pc = "in_func"
    /\ _idempotency_store' = wrapper_raise(_idempotency_store, itask[c].key, now)
    /\ itask' = [itask EXCEPT ![c] = IdleCaller]
    /\ ilast' = Step("raise", c, itask[c].key, "None")
    /\ UNCHANGED <<restVars, cbVars, rtVars>>

\* check_idempotency(key) called on its own.
Check(key) ==
    /\ LET r == check_idempotency(_idempotency_store, key, now)
       IN  /\ _idempotency_store' = r.store
           /\ ilast' = Step("check", 0, key, r.value)
    /\ UNCHANGED <<restVars, cbVars, rtVars, itask>>

\* A second passes, or a whole TTL; the clock takes the values 0..MaxLate and
\* IDEMPOTENCY_TTL_SECONDS..IDEMPOTENCY_TTL_SECONDS + MaxLate.
IdemTick(d) ==
    /\ now + d <= IDEMPOTENCY_TTL_SECONDS + MaxLate
    /\ d = 1 => now % IDEMPOTENCY_TTL_SECONDS < MaxLate
    /\ now' = now + d
    /\ ilast' = [NoIdemStep EXCEPT !.failed = ilast.failed]
    /\ UNCHANGED <<restVars, cb, task, last, failStreak, succStreak, reopened, rtVars,
                   _idempotency_store, itask>>

NextIdem ==
    \/ \E c \in Callers, a \in ArgsChoices, kw \in KwargsChoices : ExecBegin(c, a, kw)
    \/ \E c \in Callers, r \in Results : ExecReturn(c, r)
    \/ \E c \in Callers : ExecRaise(c)
    \/ \E k \in AllKeys : Check(k)
    \/ \E d \in {1, IDEMPOTENCY_TTL_SECONDS} : IdemTick(d)

SpecIdem == InitIdem /\ [][NextIdem]_vars

\* ------------------------------------------------------- idempotency claims

\* C5: callers of the wrapper that use the same key at the same time run the
\* function once between them, and receive the same result: no two of them
\* await the function together, and a caller whose function returns after
\* another caller has recorded a result returns that result.
C5_ConcurrentOnce ==
    /\ \A c1 \in Callers, c2 \in Callers :
          (c1 # c2 /\ itask[c1].key = itask[c2].key)
             => ~(itask[c1].pc = "in_func" /\ itask[c2].pc = "in_func")
    /\ (ilast.kind = "return" /\ ilast.found = "live") => ilast.value = ilast.prev

\* C6: a call that starts when no other call with its key is running, and
\* finds the record a completed call stored no longer than the TTL ago, does
\* not run the function and returns the recorded result, whatever it is.
C6_SequentialHit ==
    (ilast.kind = "begin" /\ ilast.found = "live" /\ inflight(ilast.task, ilast.key) = {}) =>
        /\ itask[ilast.task].pc = "idle"
        /\ ilast.value = recorded(_idempotency_store, ilast.key)

\* C7: check_idempotency returns a stored result only from a record no older
\* than the TTL; a record older than the TTL is a miss and is deleted, the
\* wrapper then runs the function again, and when the function returns the
\* store holds a record of its result created at that moment.
C7_Expiry ==
    /\ (ilast.kind \in {"begin", "check"} /\ ilast.found = "stale")
          => /\ ilast.value = "None"
             /\ ~dict_has(_idempotency_store, ilast.key)
             /\ ilast.kind = "begin" => itask[ilast.task].pc = "in_func"
    /\ (ilast.kind \in {"begin", "check"} /\ ilast.value # "None")
          => /\ ilast.found = "live"
             /\ ilast.value = recorded(_idempotency_store, ilast.key)
    /\ ilast.kind = "return"
          => /\ dict_has(_idempotency_store, ilast.key)
             /\ fromisoformat(dict_get(_idempotency_store, ilast.key).created_at) = now
             /\ dict_get(_idempotency_store, ilast.key).result = ilast.value

C7_Witness ==
    /\ ilast.kind = "begin"
    /\ ilast.found = "stale"
    /\ itask[ilast.task].pc = "in_func"
    /\ ~dict_has(_idempotency_store, ilast.key)
    /\ now > IDEMPOTENCY_TTL_SECONDS

\* C27: when func raises inside the wrapper the exception leaves the wrapper
\* and the store is what it was; and a call made with a key under which func
\* has raised, nothing being recorded for the key then or since, finds no
\* result and runs func again.
C27_FailureNotCached ==
    /\ ilast.kind = "raise"
          => /\ itask[ilast.task].pc = "idle"
             /\ _idempotency_store = ilast.before
    /\ (ilast.kind = "begin" /\ ilast.key \in ilast.failed)
          => /\ ilast.value = "None"
             /\ itask[ilast.task].pc = "in_func"
             /\ itask[ilast.task].key = ilast.key

C27_Witness ==
    /\ ilast.kind = "begin"
    /\ ilast.key \in ilast.failed
    /\ itask[ilast.task].pc = "in_func"
    /\ _idempotency_store # << >>

\* The arguments of two calls are the same: the same positional arguments
\* and the same keyword arguments, in whatever order the keywords are written.
SameArguments(c1, c2) ==
    /\ itask[c1].args = itask[c2].args
    /\ {itask[c1].kwargs[i] : i \in 1..Len(itask[c1].kwargs)}
          = {itask[c2].kwargs[i] : i \in 1..Len(itask[c2].kwargs)}

\* C28: two calls of the wrapped function that differ in an argument,
\* positional or keyword, derive different keys.
C28_KeyPerArguments ==
    \A c1 \in Callers, c2 \in Callers :
        (itask[c1].pc = "in_func" /\ itask[c2].pc = "in_func" /\ ~SameArguments(c1, c2))
            => itask[c1].key # itask[c2].key

\* ------------------------------------------------ idempotency store at capacity

\* The key of a call with guest = n.
GuestKey(n) == generate_idempotency_key(OperationName, << <<"guest", int_(n)>> >>)

\* A store that earlier calls have filled up to MaxFree records below its
\* capacity: the first `old` records stored at second 0, the others at second 1.
Filled(old) ==
    [n \in 1..(IdempotencyCapacity - MaxFree) |->
        [key |-> GuestKey(n), result |-> "r1",
         created_at |-> isoformat(IF n <= old THEN 0 ELSE 1)]]

OldChoices == {0, IdempotencyEvict - 1, IdempotencyCapacity - MaxFree}

\* The guests store_idempotency is called for: new ones, and one the store holds.
StoreGuests == {1} \cup ((IdempotencyCapacity - MaxFree + 1)..(IdempotencyCapacity + 1))

InitIdemFull ==
    /\ cb = CircuitBreaker(5, 30, 3)
    /\ now = 1
    /\ task = [t \in Tasks |-> Idle]
    /\ last = NoStep
    /\ failStreak = 0
    /\ succStreak = 0
    /\ reopened = FALSE
    /\ RetryQuiet
    /\ RestQuiet
    /\ itask = [c \in Callers |-> IdleCaller]
    /\ ilast = NoIdemStep
    /\ \E old \in OldChoices : _idempotency_store = Filled(old)

\* store_idempotency(key, result); a behaviour goes on up to its first eviction.
StoreRecord(n, result) ==
    /\ Len(_idempotency_store) >= IdempotencyCapacity - MaxFree
    /\ _idempotency_store' = store_idempotency(_idempotency_store, GuestKey(n), result, now)
    /\ ilast' = [NoIdemStep EXCEPT !.kind = "store", !.key = GuestKey(n), !.value = result,
                                   !.at = now, !.before = _idempotency_store]
    /\ UNCHANGED <<restVars, cbVars, rtVars, itask>>

\* The clock of the store goes on from second 1 to second 2.
FullTick ==
    /\ now < 2
    /\ now' = now + 1
    /\ UNCHANGED <<restVars, cb, task, last, failStreak, succStreak, reopened, rtVars, idVars>>

NextIdemFull ==
    \/ \E n \in StoreGuests : StoreRecord(n, "r2")
    \/ FullTick

SpecIdemFull == InitIdemFull /\ [][NextIdemFull]_vars

\* The records of a store, and how many of them carry one created_at text.
Records(store) == {store[i] : i \in 1..Len(store)}
Stamps(store) == {store[i].created_at : i \in 1..Len(store)}
Count(store, stamp) == Cardinality({i \in 1..Len(store) : store[i].created_at = stamp})

\* What a store holds after a write that made it `written`: the records of
\* `written`, all of them up to the capacity, and above it all but
\* IdempotencyEvict of them, none of those newer than a record that stays.
Evicted(written, after) ==
    /\ Len(after) <= IdempotencyCapacity
    /\ Cardinality(Records(after)) = Len(after)
    /\ \A held \in {Records(written)} :
          /\ Cardinality(held) = Len(written)
          /\ \A i \in 1..Len(after) : after[i] \in held
    /\ IF Len(written) > IdempotencyCapacity
       THEN /\ Len(after) = Len(written) - IdempotencyEvict
            /\ \A x \in Stamps(written), y \in Stamps(after) :
                  Count(written, x) > Count(after, x) => iso_le(x, y)
       ELSE after = written

\* C24: after store_idempotency the store holds at most the capacity and
\* still holds the record just written; a write that takes the size above
\* the capacity evicts exactly IdempotencyEvict records, none of them newer
\* than a record that is kept; any other write evicts nothing.
C24_CapacityEviction ==
    ilast.kind = "store" =>
        /\ dict_has(_idempotency_store, ilast.key)
        /\ dict_get(_idempotency_store, ilast.key).result = ilast.value
        /\ \A written \in {dict_set(ilast.before, ilast.key,
                                    [result |-> ilast.value,
                                     created_at |-> isoformat(ilast.at)])} :
              Evicted(written, _idempotency_store)

C24_Witness ==
    /\ ilast.kind = "store"
    /\ Len(_idempotency_store) = IdempotencyCapacity + 1 - IdempotencyEvict
    /\ dict_has(_idempotency_store, GuestKey(1))
    /\ dict_get(_idempotency_store, GuestKey(1)).result = "r2"
    /\ ~dict_has(_idempotency_store, GuestKey(2))

\* ------------------------------------------------ dead letter queue, actions

\* A queue of any max_size, empty.
InitDLQ ==
    /\ CBQuiet
    /\ RetryQuiet
    /\ IdemQuiet
    /\ \E n \in 0..MaxSize : dlq = DeadLetterQueue(n)
    /\ entries = << >>
    /\ snapshot = NoList
    /\ seen = << >>
    /\ dlast = NoDlqStep
    /\ RegQuiet
    /\ DegQuiet
    /\ KeyQuiet
    /\ MgQuiet

DlqStep(kind, id, raised, value) ==
    [kind |-> kind, id |-> id, raised |-> raised,
     at |-> position(dlq, entries, id),
     pre |-> read(dlq._queue, entries), pre_queue |-> dlq._queue, value |-> value,
     handled |-> << >>]

\* dlq.add(message, error), for at most limit entries in a behaviour.
AddWithin(limit, message, error) ==
    /\ Len(entries) < limit
    /\ LET r == add(dlq, entries, message, error, now)
       IN  /\ dlq' = r.dlq
           /\ entries' = r.entries
    /\ dlast' = [DlqStep("add", md5_8(str(message)), << >>, FALSE) EXCEPT !.at = 0]
    /\ UNCHANGED <<snapshot, seen, dlqRest>>

Add(message, error) == AddWithin(MaxAdds, message, error)

\* dlq.retry(message_id, handler), the handler returning or raising.
Retry(message_id, raised) ==
    /\ LET i == position(dlq, entries, message_id)
       IN  IF i = 0 \/ raised = << >> THEN TRUE
           ELSE entries[dlq._queue[i]].retry_count < MaxRetryCount
    /\ LET r == retry(dlq, entries, message_id, raised, now)
       IN  /\ dlq' = r.dlq
           /\ entries' = r.entries
           /\ dlast' = [DlqStep("retry", message_id, raised, r.value)
                          EXCEPT !.handled = r.handled]
    /\ UNCHANGED <<snapshot, seen, dlqRest>>

\* dlq.clear()
Clear ==
    /\ dlq' = clear(dlq).dlq
    /\ dlast' = [DlqStep("clear", md5_8(""), << >>, FALSE) EXCEPT !.at = 0]
    /\ UNCHANGED <<entries, snapshot, seen, dlqRest>>

\* dlq.get_all(): the caller keeps the returned list.
GetAll ==
    /\ snapshot' = get_all(dlq)
    /\ seen' = read(get_all(dlq), entries)
    /\ dlast' = [DlqStep("get_all", md5_8(""), << >>, FALSE) EXCEPT !.at = 0]
    /\ UNCHANGED <<dlq, entries, dlqRest>>

NextDLQ ==
    \/ \E m \in Messages, e \in AddErrors : Add(m, e)
    \/ \E id \in MessageIds, raised \in {<< >>} \cup {<<x>> : x \in HandlerErrors} :
          Retry(id, raised)
    \/ Clear
    \/ GetAll

SpecDLQ == InitDLQ /\ [][NextDLQ]_vars

\* ------------------------------------------------- dead letter queue claims

\* C12: whatever max_size the queue was built with, after every add, retry
\* and clear the list get_all returns has at most max_size entries.
C12_SizeBound == Len(get_all(dlq)) <= dlq.max_size

\* C13: an add to a queue that holds max_size entries (max_size >= 1, so
\* that there is an oldest entry) drops the oldest entry and nothing else:
\* the queue is then its previous contents without their first entry,
\* followed by the new entry, which is never the one dropped.
C13_EvictsOldest ==
    (dlast.kind = "add" /\ Len(dlast.pre_queue) = dlq.max_size /\ dlq.max_size >= 1) =>
        LET new == Len(entries)
        IN  /\ dlq._queue = Append(Tail(dlast.pre_queue), new)
            /\ read(dlq._queue, entries) = Append(Tail(dlast.pre), entries[new])
            /\ entries[new].id = dlast.id
            /\ entries[new].retry_count = 0
            /\ \A i \in 1..Len(dlast.pre_queue) : dlast.pre_queue[i] # new

C13_Witness ==
    /\ dlast.kind = "add"
    /\ dlq.max_size = 2
    /\ Len(dlast.pre_queue) = 2
    /\ dlq._queue = <<dlast.pre_queue[2], Len(entries)>>

\* The last step was a retry of an entry the queue held.
RetriedQueued == dlast.kind = "retry" /\ dlast.at > 0

\* The handler returned: the entry is gone, the others stay, retry returns True.
RetrySucceeded ==
    /\ dlast.value = TRUE
    /\ dlq._queue = pop(dlast.pre_queue, dlast.at)
    /\ read(dlq._queue, entries) = pop(dlast.pre, dlast.at)

\* The handler raised: every entry stays at its position, the retried one
\* with retry_count one higher, the others as they were; retry returns False.
RetryFailedKept ==
    /\ dlast.value = FALSE
    /\ dlq._queue = dlast.pre_queue
    /\ \A j \in 1..Len(dlast.pre) :
          LET e == entries[dlq._queue[j]]
              old == dlast.pre[j]
          IN  IF j = dlast.at
              THEN /\ e.retry_count = old.retry_count + 1
                   /\ e.id = old.id
                   /\ e.message = old.message
                   /\ e.failed_at = old.failed_at
              ELSE e = old

\* C14 as stated: a retry whose handler returns removes the entry and returns
\* True; a retry whose handler raises leaves the entry at its position with
\* retry_count one higher and its error field set to the new failure, and
\* returns False.
C14_RetryOutcome ==
    RetriedQueued =>
        IF dlast.raised = << >> THEN RetrySucceeded
        ELSE /\ RetryFailedKept
             /\ entries[dlq._queue[dlast.at]].error = dlast.raised[1]

\* C14 amended: as above, but the new failure is written to last_error (and
\* the time to last_retry) while the error field keeps the failure add stored.
C14_RetryOutcomeAmended ==
    RetriedQueued =>
        IF dlast.raised = << >> THEN RetrySucceeded
        ELSE /\ RetryFailedKept
             /\ entries[dlq._queue[dlast.at]].last_error = dlast.raised
             /\ entries[dlq._queue[dlast.at]].last_retry = <<isoformat(now)>>
             /\ entries[dlq._queue[dlast.at]].error = dlast.pre[dlast.at].error

C14_Witness ==
    /\ RetriedQueued
    /\ dlast.raised # << >>
    /\ dlast.at = 2
    /\ dlast.pre[2].retry_count = 1
    /\ entries[dlq._queue[2]].retry_count = 2
    /\ entries[dlq._queue[2]].error # dlast.raised[1]

\* C15: what a caller reads through a list get_all returned does not change
\* with any later add, retry or clear.
C15_SnapshotStable == snapshot # NoList => read(snapshot, entries) = seen

\* The positions of the entries with an id in a list of entries, and the
\* first of them.
Matches(list, id) == {j \in 1..Len(list) : list[j].id = id}
Oldest(list, id) == CHOOSE j \in Matches(list, id) : \A k \in Matches(list, id) : j <= k

\* C29: an entry's id is computed from its message alone, so entries with
\* equal messages have equal ids; retry(id, handler) with no queued entry of
\* that id returns False, invokes no handler and leaves queue and entries as
\* they were; otherwise it invokes the handler once, with the message of the
\* oldest queued entry of that id, and every other entry stays as it was.
C29_RetryOldest ==
    /\ \A i \in 1..Len(entries) :
          /\ entries[i].id = md5_8(str(entries[i].message))
          /\ \A j \in 1..Len(entries) :
                entries[i].message = entries[j].message => entries[i].id = entries[j].id
    /\ dlast.kind = "retry" =>
          LET after == read(dlq._queue, entries)
          IN  IF Matches(dlast.pre, dlast.id) = {}
              THEN /\ dlast.value = FALSE
                   /\ dlast.handled = << >>
                   /\ dlq._queue = dlast.pre_queue
                   /\ after = dlast.pre
              ELSE LET o == Oldest(dlast.pre, dlast.id)
                   IN  /\ dlast.handled = <<dlast.pre[o].message>>
                       /\ IF dlast.value
                          THEN after = pop(dlast.pre, o)
                          ELSE /\ Len(after) = Len(dlast.pre)
                               /\ after[o].id = dlast.id
                               /\ \A j \in 1..Len(after) : j # o => after[j] = dlast.pre[j]

C29_Witness ==
    /\ dlast.kind = "retry"
    /\ Cardinality(Matches(dlast.pre, dlast.id)) = 2
    /\ dlast.value
    /\ Cardinality(Matches(read(dlq._queue, entries), dlast.id)) = 1

\* ------------------------------------------- dead letter queue, management read

\* The queue get_dlq creates: max_size is the default of DeadLetterQueue.
InitDLQRead ==
    /\ CBQuiet
    /\ RetryQuiet
    /\ IdemQuiet
    /\ DlqQuiet
    /\ RegQuiet
    /\ DegQuiet
    /\ KeyQuiet
    /\ MgQuiet

\* GET /resilience/dlq/{queue_name}
GetDlqStatus ==
    /\ shown' = get_dlq_status(dlq, entries).messages
    /\ dlast' = [DlqStep("status", md5_8(""), << >>, FALSE) EXCEPT !.at = 0, !.pre = << >>]
    /\ UNCHANGED <<dlq, entries, snapshot, seen, request, hlast, sthread, degVars, mgRest>>

NextDLQRead ==
    \/ \E m \in {[type |-> "str", text |-> "a"]}, e \in AddErrors : AddWithin(MaxShownAdds, m, e)
    \/ GetDlqStatus

SpecDLQRead == InitDLQRead /\ [][NextDLQRead]_vars

\* C21: the management read of a queue returns at most 50 entries, and from
\* a queue of more than 50 entries it returns the 50 added last.
C21_ShowsNewest ==
    dlast.kind = "status" =>
        /\ Len(shown) <= 50
        /\ Len(dlq._queue) <= 50 => shown = dlq._queue
        /\ Len(dlq._queue) > 50 =>
              shown = SubSeq(dlq._queue, Len(dlq._queue) - 49, Len(dlq._queue))

\* ---------------------------------- registry and degradation mode, actions

InitRegistry ==
    /\ CBQuiet
    /\ RetryQuiet
    /\ IdemQuiet
    /\ DlqQuiet
    /\ KeyQuiet
    /\ RegQuiet
    /\ DegQuiet
    /\ MgQuiet

\* A thread enters get_circuit_breaker and evaluates `if name not in
\* _circuit_breakers`. The function takes no lock, and threads (the server
\* runs its plain-def endpoints in a thread pool) switch between its
\* statements; coroutines of one event loop cannot, the function having no await.
RegEnter(c, name, failure_threshold, recovery_timeout) ==
    /\ rcall[c].pc = "idle"
    /\ rcall' = [rcall EXCEPT ![c] =
                    [pc |-> IF registered(_circuit_breakers, name) THEN "return" ELSE "create",
                     name |-> name, failure_threshold |-> failure_threshold,
                     recovery_timeout |-> recovery_timeout]]
    /\ UNCHANGED <<_circuit_breakers, instances, handed, degVars, regRest>>

\* `_circuit_breakers[name] = CircuitBreaker(...)`
RegCreate(c) ==
    /\ rcall[c].pc = "create"
    /\ instances' = Append(instances, new_breaker(rcall[c].name, rcall[c].failure_threshold,
                                                  rcall[c].recovery_timeout))
    /\ _circuit_breakers' = [_circuit_breakers EXCEPT ![rcall[c].name] = Len(instances) + 1]
    /\ rcall' = [rcall EXCEPT ![c].pc = "return"]
    /\ UNCHANGED <<handed, degVars, regRest>>

\* `return _circuit_breakers[name]`
RegReturn(c) ==
    /\ rcall[c].pc = "return"
    /\ handed' = handed \cup {<<rcall[c].name, _circuit_breakers[rcall[c].name]>>}
    /\ rcall' = [rcall EXCEPT ![c].pc = "idle"]
    /\ UNCHANGED <<_circuit_breakers, instances, degVars, regRest>>

\* set_degradation_mode(mode)
SetMode(mode) ==
    /\ Len(mode_log) < MaxSetModes
    /\ _degradation_mode' = set_degradation_mode(mode)
    /\ mode_log' = Append(mode_log, mode)
    /\ UNCHANGED <<regVars, regRest>>

NextRegistry ==
    \/ \E c \in Threads, n \in BreakerNames, ft \in ThresholdChoices, rto \in TimeoutChoices :
          RegEnter(c, n, ft, rto)
    \/ \E c \in Threads : RegCreate(c)
    \/ \E c \in Threads : RegReturn(c)
    \/ \E m \in DegradationMode : SetMode(m)

SpecRegistry == InitRegistry /\ [][NextRegistry]_vars

\* ------------------------------------- registry and degradation mode claims

\* The breakers constructed under a name.
Built(name) == {i \in 1..Len(instances) : instances[i].name = name}

\* C17: whatever the interleaving of get_circuit_breaker calls, at most one
\* breaker is ever constructed per name, every call for the name returns that
\* one, and the registered breaker has the failure_threshold and
\* recovery_timeout of the call that created the first.
C17_OneBreakerPerName ==
    \A n \in BreakerNames :
        /\ Cardinality(Built(n)) <= 1
        /\ \A x \in handed, y \in handed : (x[1] = n /\ y[1] = n) => x[2] = y[2]
        /\ registered(_circuit_breakers, n) =>
              \A i \in Built(n) : instances[_circuit_breakers[n]].breaker = instances[i].breaker

\* The mode of the most recent set_degradation_mode call, NORMAL before the first.
LastModeSet == IF mode_log = << >> THEN NORMAL ELSE mode_log[Len(mode_log)]

\* C19: after any sequence of set_degradation_mode calls, get_degradation_mode
\* returns the mode set last (NORMAL when none was set), is_read_only is true
\* exactly in READ_ONLY and OFFLINE, is_offline exactly in OFFLINE, and
\* is_offline implies is_read_only.
C19_ModeReads ==
    /\ get_degradation_mode(_degradation_mode) = LastModeSet
    /\ is_read_only(_degradation_mode) <=> LastModeSet \in {READ_ONLY, OFFLINE}
    /\ is_offline(_degradation_mode) <=> LastModeSet = OFFLINE
    /\ is_offline(_degradation_mode) => is_read_only(_degradation_mode)

C19_Witness ==
    /\ mode_log = <<READ_ONLY, NORMAL, OFFLINE>>
    /\ is_offline(_degradation_mode)
    /\ is_read_only(_degradation_mode)

\* ------------------------------------- degradation middleware and endpoint

InitHttp ==
    /\ CBQuiet
    /\ RetryQuiet
    /\ IdemQuiet
    /\ RestQuiet

\* A client sends a request.
Receive(req) ==
    /\ request = NoRequest
    /\ request' = req
    /\ UNCHANGED <<shown, hlast, sthread, dlqVars, degVars, mgRest>>

\* The middleware takes the request and answers 503 or hands it to the
\* application, whose set_degradation endpoint sets the mode.
Dispatch ==
    /\ request # NoRequest
    /\ LET mode == get_degradation_mode(_degradation_mode)
           forwarded == dispatch(mode, request)
           r == IF forwarded THEN route(mode, request)
                ELSE [status_code |-> 503, mode |-> mode]
           sets == forwarded /\ r.status_code = 200 /\ request.method = "POST"
       IN  /\ sets => Len(mode_log) < MaxSetModes
           /\ _degradation_mode' = r.mode
           /\ mode_log' = IF sets THEN Append(mode_log, r.mode) ELSE mode_log
           /\ hlast' = [request |-> request, mode |-> mode, status_code |-> r.status_code,
                        forwarded |-> forwarded]
    /\ request' = NoRequest
    /\ UNCHANGED <<shown, sthread, dlqVars, mgRest>>

NextHttp ==
    \/ \E req \in Requests : Receive(req)
    \/ Dispatch

SpecHttp == InitHttp /\ [][NextHttp]_vars

\* C30: with the middleware in front of the endpoint, a POST to
\* /resilience/degradation/normal is handed to the endpoint whatever the mode
\* it meets, and the mode is NORMAL once it has been served.
C30_BackToNormal ==
    hlast.request = [method |-> "POST", path |-> degradation_path(NORMAL)] =>
        /\ hlast.forwarded
        /\ hlast.status_code = 200
        /\ _degradation_mode = NORMAL

\* ----------------------------------------------------------- key derivation

\* Parameter dicts handed to generate_idempotency_key: the same names and
\* values inserted in either order, a value being an int or a dict.
Stay == <<<<"nights", 2>>, <<"bed", 1>>>>
StayReversed == <<<<"bed", 1>>, <<"nights", 2>>>>
KeyParamChoices ==
    KwargsChoices \cup
    { << <<"guest", int_(42)>>, <<"room", dict_(Stay)>> >>,
      << <<"room", dict_(Stay)>>, <<"guest", int_(42)>> >>,
      << <<"guest", int_(42)>>, <<"room", dict_(StayReversed)>> >>,
      << <<"room", dict_(StayReversed)>>, <<"guest", int_(42)>> >> }

InitKey ==
    /\ CBQuiet
    /\ RetryQuiet
    /\ IdemQuiet
    /\ DlqQuiet
    /\ RegQuiet
    /\ DegQuiet
    /\ MgQuiet
    /\ kparams \in KeyParamChoices \X KeyParamChoices
    /\ kkeys = << << >>, << >> >>

\* generate_idempotency_key(operation, kparams[i])
Derive(i) ==
    /\ kkeys[i] = << >>
    /\ kkeys' = [kkeys EXCEPT ![i] = generate_idempotency_key(OperationName, kparams[i])]
    /\ UNCHANGED <<kparams, keyRest>>

NextKey == \E i \in 1..2 : Derive(i)

SpecKey == InitKey /\ [][NextKey]_vars

\* What a value holds, whatever the insertion order of a dict.
content(value) ==
    [type |-> value.type, int |-> value.int,
     items |-> {value.items[i] : i \in 1..Len(value.items)}]

\* The two parameter dicts hold the same names with the same values.
SameContent ==
    {<<kparams[1][i][1], content(kparams[1][i][2])>> : i \in 1..Len(kparams[1])}
        = {<<kparams[2][i][1], content(kparams[2][i][2])>> : i \in 1..Len(kparams[2])}

\* C18: two parameter dicts with the same names and values give the same key
\* whatever the insertion order, also when a value is itself a dict.
C18_CanonicalKey ==
    (kkeys[1] # << >> /\ kkeys[2] # << >> /\ SameContent) => kkeys[1] = kkeys[2]

Init ==
    /\ InitCB
    /\ RetryQuiet
    /\ IdemQuiet
    /\ RestQuiet

Next ==
    \/ \E t \in Tasks : CallBegin(t)
    \/ \E t \in Tasks : CallSuccess(t)
    \/ \E t \in Tasks : CallFailure(t)
    \/ GetStatus
    \/ Tick

Spec == Init /\ [][Next]_vars

\* The same breaker with get_status called from a worker thread.
SpecThreads == Init /\ [][NextThreads]_vars

====
